---- MODULE Spec2Model ----
(***************************************************************************)
(* Model of the segmented LRU cache of slrucache.go: an array-backed pool  *)
(* of entries shared by three index-linked lists (freelist, lrulist,       *)
(* probelist), the key -> index mapping, and the operations NewSLRUCache,  *)
(* Lookup, Insert and Remove.                                              *)
(***************************************************************************)
EXTENDS Integers, Sequences, FiniteSets

\* ------------------------------------------------------------------ bounds
\* lruEntries + probeEntries <= MaxCap; keys are 0..MaxKey, values 0..MaxVal
MaxCap == 3
MaxKey == 2
MaxVal == 1

\* ------------------------------------------------------------------ constants
SLRU_EOF == -3

\* zero values of the generic key and value types (var zeroK K; var zeroV V)
zeroK == 0
zeroV == 0

Keys == 0..MaxKey
Values == 0..MaxVal

\* a nil *SLRUList (entry.list == nil)
NilList == "nil"

\* a nil *V (Lookup's "return nil"): a number that is no value
NilValue == 0 - 1

ListNames == {"freelist", "lrulist", "probelist"}

VARIABLES
    entries,    \* c.entries: slot index -> [key, value, prev, next, list]
    mapping,    \* c.mapping: key -> slot index (a partial function)
    snum,       \* c.snum
    pnum,       \* c.pnum
    cnum,       \* c.cnum
    insertCb,   \* c.insertCb != nil
    removeCb,   \* c.removeCb != nil
    freelist,   \* c.freelist: [head, tail, count]
    lrulist,    \* c.lrulist
    probelist,  \* c.probelist
    panicked,   \* a panic has unwound the running operation
    op,         \* the last completed call: its arguments, outcome and hook calls
    hitOrder,   \* history: the resident keys that Lookup has hit since they
                \* were admitted, the most recently hit first
    admitOrder, \* history: the resident keys that Lookup has not hit since
                \* they were admitted, the most recently admitted first
    inserted    \* history: for each key inserted and since then neither
                \* evicted nor removed, the value of its latest Insert

vars == <<entries, mapping, snum, pnum, cnum, insertCb, removeCb,
          freelist, lrulist, probelist, panicked, op, hitOrder, admitOrder,
          inserted>>

\* The cache object as one value, so that the methods can be written as
\* functions from cache to cache.
cache ==
    [entries |-> entries, mapping |-> mapping, snum |-> snum, pnum |-> pnum,
     cnum |-> cnum, insertCb |-> insertCb, removeCb |-> removeCb,
     freelist |-> freelist, lrulist |-> lrulist, probelist |-> probelist]

\* ------------------------------------------------------------------ SLRUList

NewSLRUList == [head |-> SLRU_EOF, tail |-> SLRU_EOF, count |-> 0]

\* removeTail without "l.count--"
removeTail_keepCount(c, l) ==
    LET t == c[l].tail IN
    IF t < 0 THEN [c |-> c, ret |-> SLRU_EOF]
    ELSE
        LET newtail == c.entries[t].prev
            e1 == [c.entries EXCEPT ![t].next = SLRU_EOF, ![t].prev = SLRU_EOF]
            e2 == IF newtail = SLRU_EOF THEN e1
                  ELSE [e1 EXCEPT ![newtail].next = SLRU_EOF]
            e3 == [e2 EXCEPT ![t].list = NilList]
            l1 == [c[l] EXCEPT !.tail = newtail,
                               !.head = IF newtail = SLRU_EOF THEN SLRU_EOF ELSE @]
        IN [c |-> [c EXCEPT !.entries = e3, ![l] = l1], ret |-> t]

\* removeTail: detach the tail of list l; ret is its index or SLRU_EOF.
removeTail(c, l) ==
    LET t == c[l].tail IN
    IF t < 0 THEN [c |-> c, ret |-> SLRU_EOF]
    ELSE
        LET newtail == c.entries[t].prev
            e1 == [c.entries EXCEPT ![t].next = SLRU_EOF, ![t].prev = SLRU_EOF]
            e2 == IF newtail = SLRU_EOF THEN e1
                  ELSE [e1 EXCEPT ![newtail].next = SLRU_EOF]
            e3 == [e2 EXCEPT ![t].list = NilList]
            l1 == [c[l] EXCEPT !.tail = newtail,
                               !.head = IF newtail = SLRU_EOF THEN SLRU_EOF ELSE @,
                               !.count = @ - 1]
        IN [c |-> [c EXCEPT !.entries = e3, ![l] = l1], ret |-> t]

\* removeHead: detach the head of list l; ret is its index or SLRU_EOF.
removeHead(c, l) ==
    LET h == c[l].head IN
    IF h < 0 THEN [c |-> c, ret |-> SLRU_EOF]
    ELSE
        LET newhead == c.entries[h].next
            e1 == [c.entries EXCEPT ![h].next = SLRU_EOF, ![h].prev = SLRU_EOF]
            e2 == IF newhead = SLRU_EOF THEN e1
                  ELSE [e1 EXCEPT ![newhead].prev = SLRU_EOF]
            e3 == [e2 EXCEPT ![h].list = NilList]
            l1 == [c[l] EXCEPT !.head = newhead,
                               !.tail = IF newhead = SLRU_EOF THEN SLRU_EOF ELSE @,
                               !.count = @ - 1]
        IN [c |-> [c EXCEPT !.entries = e3, ![l] = l1], ret |-> h]

\* remove without "e[e[n].prev].next = e[n].next"
remove_noRelink(c, l, n) ==
    IF c.entries[n].list # l THEN [c |-> c, ret |-> FALSE]
    ELSE IF c[l].head = n THEN [c |-> removeHead(c, l).c, ret |-> TRUE]
    ELSE IF c[l].tail = n THEN [c |-> removeTail(c, l).c, ret |-> TRUE]
    ELSE
        LET nx == c.entries[n].next
            pv == c.entries[n].prev
            e1 == [c.entries EXCEPT ![nx].prev = pv]
            e3 == [e1 EXCEPT ![n].next = SLRU_EOF, ![n].prev = SLRU_EOF,
                             ![n].list = NilList]
        IN [c |-> [c EXCEPT !.entries = e3, ![l].count = @ - 1], ret |-> TRUE]

\* remove: detach slot n from list l; ret is FALSE when n's list is not l.
remove(c, l, n) ==
    IF c.entries[n].list # l THEN [c |-> c, ret |-> FALSE]
    ELSE IF c[l].head = n THEN [c |-> removeHead(c, l).c, ret |-> TRUE]
    ELSE IF c[l].tail = n THEN [c |-> removeTail(c, l).c, ret |-> TRUE]
    ELSE
        LET nx == c.entries[n].next
            pv == c.entries[n].prev
            e1 == [c.entries EXCEPT ![nx].prev = pv]
            e2 == [e1 EXCEPT ![pv].next = nx]
            e3 == [e2 EXCEPT ![n].next = SLRU_EOF, ![n].prev = SLRU_EOF,
                             ![n].list = NilList]
        IN [c |-> [c EXCEPT !.entries = e3, ![l].count = @ - 1], ret |-> TRUE]

\* insertHead: link slot n in front of list l's head.
insertHead(c, l, n) ==
    LET h == c[l].head
        e1 == IF h >= 0
              THEN [c.entries EXCEPT ![h].prev = n, ![n].next = h]
              ELSE [c.entries EXCEPT ![n].next = SLRU_EOF]
        e2 == [e1 EXCEPT ![n].prev = SLRU_EOF, ![n].list = l]
        l1 == [c[l] EXCEPT !.head = n,
                           !.tail = IF h >= 0 THEN @ ELSE n,
                           !.count = @ + 1]
    IN [c EXCEPT !.entries = e2, ![l] = l1]

\* ------------------------------------------------------------------ SLRUCache

\* make([]SLRUCacheEntry[K, V], cnum): every field at its zero value
zeroEntry ==
    [key |-> zeroK, value |-> zeroV, prev |-> 0, next |-> 0, list |-> NilList]

RECURSIVE fillFreelist(_, _)
\* for i := 0; i < cache.cnum; i++ { cache.freelist.insertHead(i) }
fillFreelist(c, i) ==
    IF i >= c.cnum THEN c ELSE fillFreelist(insertHead(c, "freelist", i), i + 1)

NewSLRUCache(lruEntries, probeEntries) ==
    LET c0 == [entries |-> [i \in 0..(lruEntries + probeEntries - 1) |-> zeroEntry],
               mapping |-> <<>>,
               snum |-> lruEntries, pnum |-> probeEntries,
               cnum |-> lruEntries + probeEntries,
               insertCb |-> FALSE, removeCb |-> FALSE,
               freelist |-> NewSLRUList, lrulist |-> NewSLRUList,
               probelist |-> NewSLRUList]
    IN fillFreelist(c0, 0)

\* delete(c.mapping, k)
mapDelete(m, k) == [x \in (DOMAIN m) \ {k} |-> m[x]]

\* c.mapping[k] = n
mapStore(m, k, n) == [x \in (DOMAIN m) \cup {k} |-> IF x = k THEN n ELSE m[x]]

\* What a hook sees when it is called: the key it is handed, the number of
\* slots linked into no list and the sum of the three counts at that moment.
hookCall(c, name, k) ==
    [cb |-> name, key |-> k,
     unowned |-> Cardinality({i \in DOMAIN c.entries : c.entries[i].list = NilList}),
     total |-> c.freelist.count + c.lrulist.count + c.probelist.count]

\* The outcome of one call: the cache afterwards, the value returned (Lookup)
\* or the boolean returned (Remove), the branch taken, the keys evicted, the
\* hook calls made, and whether the call panicked.
outcome(c, ret, ok, path, evicted, cbs, pan) ==
    [c |-> c, ret |-> ret, ok |-> ok, path |-> path, evicted |-> evicted,
     cbs |-> cbs, panic |-> pan]

\* lookupEvict without "delete(c.mapping, c.entries[lt].key)"
lookupEvict_keepMapping(c) ==
    IF c.lrulist.count >= c.snum
    THEN LET r == removeTail(c, "lrulist")
             lt == r.ret
         IN IF lt # SLRU_EOF
            THEN LET k == r.c.entries[lt].key
                     cbs == IF r.c.removeCb THEN <<hookCall(r.c, "removeCb", k)>>
                            ELSE <<>>
                     c2 == [r.c EXCEPT !.entries[lt].key = zeroK,
                                       !.entries[lt].value = zeroV]
                 IN [c |-> insertHead(c2, "freelist", lt), evicted |-> {k},
                     cbs |-> cbs]
            ELSE [c |-> r.c, evicted |-> {}, cbs |-> <<>>]
    ELSE [c |-> c, evicted |-> {}, cbs |-> <<>>]

\* lookupEvict handing the evicted slot back to probelist
lookupEvict_toProbe(c) ==
    IF c.lrulist.count >= c.snum
    THEN LET r == removeTail(c, "lrulist")
             lt == r.ret
         IN IF lt # SLRU_EOF
            THEN LET k == r.c.entries[lt].key
                     cbs == IF r.c.removeCb THEN <<hookCall(r.c, "removeCb", k)>>
                            ELSE <<>>
                 IN [c |-> insertHead(r.c, "probelist", lt), evicted |-> {},
                     cbs |-> cbs]
            ELSE [c |-> r.c, evicted |-> {}, cbs |-> <<>>]
    ELSE [c |-> c, evicted |-> {}, cbs |-> <<>>]

\* lookupEvict taking lrulist's head for its tail
lookupEvict_head(c) ==
    IF c.lrulist.count >= c.snum
    THEN LET r == removeHead(c, "lrulist")
             lt == r.ret
         IN IF lt # SLRU_EOF
            THEN LET k == r.c.entries[lt].key
                     c1 == [r.c EXCEPT !.mapping = mapDelete(@, k)]
                     cbs == IF c1.removeCb THEN <<hookCall(c1, "removeCb", k)>>
                            ELSE <<>>
                     c2 == [c1 EXCEPT !.entries[lt].key = zeroK,
                                      !.entries[lt].value = zeroV]
                 IN [c |-> insertHead(c2, "freelist", lt), evicted |-> {k},
                     cbs |-> cbs]
            ELSE [c |-> r.c, evicted |-> {}, cbs |-> <<>>]
    ELSE [c |-> c, evicted |-> {}, cbs |-> <<>>]

\* Lookup's eviction of lrulist's tail when lrulist is full (lines 216-232)
lookupEvict(c) ==
    IF c.lrulist.count >= c.snum
    THEN LET r == removeTail(c, "lrulist")
             lt == r.ret
         IN IF lt # SLRU_EOF
            THEN LET k == r.c.entries[lt].key
                     c1 == [r.c EXCEPT !.mapping = mapDelete(@, k)]
                     cbs == IF c1.removeCb THEN <<hookCall(c1, "removeCb", k)>>
                            ELSE <<>>
                     c2 == [c1 EXCEPT !.entries[lt].key = zeroK,
                                      !.entries[lt].value = zeroV]
                 IN [c |-> insertHead(c2, "freelist", lt), evicted |-> {k},
                     cbs |-> cbs]
            ELSE [c |-> r.c, evicted |-> {}, cbs |-> <<>>]
    ELSE [c |-> c, evicted |-> {}, cbs |-> <<>>]

\* Lookup putting the promoted slot back at probelist's head
Lookup_noPromotion(c, key) ==
    IF key \notin DOMAIN c.mapping
    THEN outcome(c, NilValue, FALSE, "miss", {}, <<>>, FALSE)
    ELSE
        LET n == c.mapping[key] IN
        IF c.entries[n].list = "lrulist"
        THEN IF n # c.lrulist.head
             THEN LET r == remove(c, "lrulist", n) IN
                  IF ~r.ret
                  THEN outcome(r.c, NilValue, FALSE, "panic", {}, <<>>, TRUE)
                  ELSE LET c1 == insertHead(r.c, "lrulist", n)
                       IN outcome(c1, c1.entries[n].value, TRUE, "move", {},
                                  <<>>, FALSE)
             ELSE outcome(c, c.entries[n].value, TRUE, "head", {}, <<>>, FALSE)
        ELSE
            LET ev == lookupEvict(c)
                l == ev.c.entries[n].list
            IN IF l = NilList
               THEN outcome(ev.c, NilValue, FALSE, "panic", ev.evicted, ev.cbs, TRUE)
               ELSE LET r == remove(ev.c, l, n) IN
                    IF ~r.ret
                    THEN outcome(r.c, NilValue, FALSE, "panic", ev.evicted,
                                 ev.cbs, TRUE)
                    ELSE LET c1 == insertHead(r.c, "probelist", n)
                             cbs == IF c1.insertCb
                                    THEN Append(ev.cbs, hookCall(c1, "insertCb", key))
                                    ELSE ev.cbs
                         IN outcome(c1, c1.entries[n].value, TRUE, "promote",
                                    ev.evicted, cbs, FALSE)

\* Lookup calling the insertion hook on every move to lrulist's head
Lookup_cbOnMove(c, key) ==
    IF key \notin DOMAIN c.mapping
    THEN outcome(c, NilValue, FALSE, "miss", {}, <<>>, FALSE)
    ELSE
        LET n == c.mapping[key] IN
        IF c.entries[n].list = "lrulist"
        THEN IF n # c.lrulist.head
             THEN LET r == remove(c, "lrulist", n) IN
                  IF ~r.ret
                  THEN outcome(r.c, NilValue, FALSE, "panic", {}, <<>>, TRUE)
                  ELSE LET c1 == insertHead(r.c, "lrulist", n)
                       IN outcome(c1, c1.entries[n].value, TRUE, "move", {},
                                  IF c1.insertCb
                                  THEN <<hookCall(c1, "insertCb", key)>>
                                  ELSE <<>>, FALSE)
             ELSE outcome(c, c.entries[n].value, TRUE, "head", {}, <<>>, FALSE)
        ELSE
            LET ev == lookupEvict(c)
                l == ev.c.entries[n].list
            IN IF l = NilList
               THEN outcome(ev.c, NilValue, FALSE, "panic", ev.evicted, ev.cbs, TRUE)
               ELSE LET r == remove(ev.c, l, n) IN
                    IF ~r.ret
                    THEN outcome(r.c, NilValue, FALSE, "panic", ev.evicted,
                                 ev.cbs, TRUE)
                    ELSE LET c1 == insertHead(r.c, "lrulist", n)
                             cbs == IF c1.insertCb
                                    THEN Append(ev.cbs, hookCall(c1, "insertCb", key))
                                    ELSE ev.cbs
                         IN outcome(c1, c1.entries[n].value, TRUE, "promote",
                                    ev.evicted, cbs, FALSE)

\* Lookup without "c.lrulist.insertHead(n)" after moving a key of lrulist
Lookup_noReinsert(c, key) ==
    IF key \notin DOMAIN c.mapping
    THEN outcome(c, NilValue, FALSE, "miss", {}, <<>>, FALSE)
    ELSE
        LET n == c.mapping[key] IN
        IF c.entries[n].list = "lrulist"
        THEN IF n # c.lrulist.head
             THEN LET r == remove(c, "lrulist", n) IN
                  IF ~r.ret
                  THEN outcome(r.c, NilValue, FALSE, "panic", {}, <<>>, TRUE)
                  ELSE outcome(r.c, r.c.entries[n].value, TRUE, "move", {},
                               <<>>, FALSE)
             ELSE outcome(c, c.entries[n].value, TRUE, "head", {}, <<>>, FALSE)
        ELSE
            LET ev == lookupEvict(c)
                l == ev.c.entries[n].list
            IN IF l = NilList
               THEN outcome(ev.c, NilValue, FALSE, "panic", ev.evicted, ev.cbs, TRUE)
               ELSE LET r == remove(ev.c, l, n) IN
                    IF ~r.ret
                    THEN outcome(r.c, NilValue, FALSE, "panic", ev.evicted,
                                 ev.cbs, TRUE)
                    ELSE LET c1 == insertHead(r.c, "lrulist", n)
                             cbs == IF c1.insertCb
                                    THEN Append(ev.cbs, hookCall(c1, "insertCb", key))
                                    ELSE ev.cbs
                         IN outcome(c1, c1.entries[n].value, TRUE, "promote",
                                    ev.evicted, cbs, FALSE)

Lookup(c, key) ==
    IF key \notin DOMAIN c.mapping
    THEN outcome(c, NilValue, FALSE, "miss", {}, <<>>, FALSE)
    ELSE
        LET n == c.mapping[key] IN
        IF c.entries[n].list = "lrulist"
        THEN IF n # c.lrulist.head
             THEN LET r == remove(c, "lrulist", n) IN
                  IF ~r.ret
                  THEN outcome(r.c, NilValue, FALSE, "panic", {}, <<>>, TRUE)
                  ELSE LET c1 == insertHead(r.c, "lrulist", n)
                       IN outcome(c1, c1.entries[n].value, TRUE, "move", {},
                                  <<>>, FALSE)
             ELSE outcome(c, c.entries[n].value, TRUE, "head", {}, <<>>, FALSE)
        ELSE
            LET ev == lookupEvict(c)
                l == ev.c.entries[n].list
            IN IF l = NilList
               THEN outcome(ev.c, NilValue, FALSE, "panic", ev.evicted, ev.cbs, TRUE)
               ELSE LET r == remove(ev.c, l, n) IN
                    IF ~r.ret
                    THEN outcome(r.c, NilValue, FALSE, "panic", ev.evicted,
                                 ev.cbs, TRUE)
                    ELSE LET c1 == insertHead(r.c, "lrulist", n)
                             cbs == IF c1.insertCb
                                    THEN Append(ev.cbs, hookCall(c1, "insertCb", key))
                                    ELSE ev.cbs
                         IN outcome(c1, c1.entries[n].value, TRUE, "promote",
                                    ev.evicted, cbs, FALSE)

\* insertSlot with "c.probelist.count > c.pnum" for ">="
insertSlot_offByOne(c) ==
    IF c.probelist.count > c.pnum
    THEN LET r == removeTail(c, "probelist")
             n == r.ret
         IN IF n = SLRU_EOF THEN [c |-> r.c, ret |-> SLRU_EOF, evicted |-> {}]
            ELSE [c |-> [r.c EXCEPT !.mapping = mapDelete(@, r.c.entries[n].key),
                                    !.entries[n].key = zeroK,
                                    !.entries[n].value = zeroV],
                  ret |-> n, evicted |-> {r.c.entries[n].key}]
    ELSE LET r == removeTail(c, "freelist")
         IN [c |-> r.c, ret |-> r.ret, evicted |-> {}]

\* insertSlot evicting from lrulist where the code names probelist
insertSlot_evictLru(c) ==
    IF c.probelist.count >= c.pnum
    THEN LET r == removeTail(c, IF c.lrulist.count > 0 THEN "lrulist" ELSE "probelist")
             n == r.ret
         IN IF n = SLRU_EOF THEN [c |-> r.c, ret |-> SLRU_EOF, evicted |-> {}]
            ELSE [c |-> [r.c EXCEPT !.mapping = mapDelete(@, r.c.entries[n].key),
                                    !.entries[n].key = zeroK,
                                    !.entries[n].value = zeroV],
                  ret |-> n, evicted |-> {r.c.entries[n].key}]
    ELSE LET r == removeTail(c, "freelist")
         IN [c |-> r.c, ret |-> r.ret, evicted |-> {}]

\* insertSlot taking a slot of freelist whenever there is one, and evicting
\* probelist's tail only when freelist is empty
insertSlot_freeFirst(c) ==
    IF c.freelist.count = 0
    THEN LET r == removeTail(c, "probelist")
             n == r.ret
         IN IF n = SLRU_EOF THEN [c |-> r.c, ret |-> SLRU_EOF, evicted |-> {}]
            ELSE [c |-> [r.c EXCEPT !.mapping = mapDelete(@, r.c.entries[n].key),
                                    !.entries[n].key = zeroK,
                                    !.entries[n].value = zeroV],
                  ret |-> n, evicted |-> {r.c.entries[n].key}]
    ELSE LET r == removeTail(c, "freelist")
         IN [c |-> r.c, ret |-> r.ret, evicted |-> {}]

\* Insert's choice of a slot for a new key (lines 257-277): ret is SLRU_EOF
\* on the two doPanic branches.
insertSlot(c) ==
    IF c.probelist.count >= c.pnum
    THEN LET r == removeTail(c, "probelist")
             n == r.ret
         IN IF n = SLRU_EOF THEN [c |-> r.c, ret |-> SLRU_EOF, evicted |-> {}]
            ELSE [c |-> [r.c EXCEPT !.mapping = mapDelete(@, r.c.entries[n].key),
                                    !.entries[n].key = zeroK,
                                    !.entries[n].value = zeroV],
                  ret |-> n, evicted |-> {r.c.entries[n].key}]
    ELSE LET r == removeTail(c, "freelist")
         IN [c |-> r.c, ret |-> r.ret, evicted |-> {}]

\* Insert putting a new key at lrulist's head while lrulist has room
Insert_intoLru(c, key, value) ==
    IF key \in DOMAIN c.mapping
    THEN LET n == c.mapping[key]
         IN outcome([c EXCEPT !.entries[n].value = value], NilValue, TRUE,
                    "update", {}, <<>>, FALSE)
    ELSE
        LET s == insertSlot(c)
            n == s.ret
        IN IF n = SLRU_EOF
           THEN outcome(s.c, NilValue, FALSE, "panic", {}, <<>>, TRUE)
           ELSE LET c1 == [s.c EXCEPT !.entries[n].key = key,
                                      !.entries[n].value = value,
                                      !.mapping = mapStore(@, key, n)]
                IN outcome(insertHead(c1, IF c1.lrulist.count < c1.snum
                                          THEN "lrulist" ELSE "probelist", n),
                           NilValue, TRUE,
                           IF s.evicted # {} THEN "evict" ELSE "admit",
                           s.evicted, <<>>, FALSE)

\* Insert refreshing the recency of a resident key: the slot moves to the
\* head of its list
Insert_refresh(c, key, value) ==
    IF key \in DOMAIN c.mapping
    THEN LET n == c.mapping[key]
             l == c.entries[n].list
             c1 == [c EXCEPT !.entries[n].value = value]
         IN outcome(insertHead(remove(c1, l, n).c, l, n), NilValue, TRUE,
                    "update", {}, <<>>, FALSE)
    ELSE
        LET s == insertSlot(c)
            n == s.ret
        IN IF n = SLRU_EOF
           THEN outcome(s.c, NilValue, FALSE, "panic", {}, <<>>, TRUE)
           ELSE LET c1 == [s.c EXCEPT !.entries[n].key = key,
                                      !.entries[n].value = value,
                                      !.mapping = mapStore(@, key, n)]
                IN outcome(insertHead(c1, "probelist", n), NilValue, TRUE,
                           IF s.evicted # {} THEN "evict" ELSE "admit",
                           s.evicted, <<>>, FALSE)

\* Insert clearing the evicted slot after the new key and value are written
Insert_clearAfterWrite(c, key, value) ==
    IF key \in DOMAIN c.mapping
    THEN LET n == c.mapping[key]
         IN outcome([c EXCEPT !.entries[n].value = value], NilValue, TRUE,
                    "update", {}, <<>>, FALSE)
    ELSE
        LET s == insertSlot(c)
            n == s.ret
        IN IF n = SLRU_EOF
           THEN outcome(s.c, NilValue, FALSE, "panic", {}, <<>>, TRUE)
           ELSE LET c1 == [s.c EXCEPT !.entries[n].key = key,
                                      !.entries[n].value =
                                          IF s.evicted # {} THEN zeroV ELSE value,
                                      !.mapping = mapStore(@, key, n)]
                IN outcome(insertHead(c1, "probelist", n), NilValue, TRUE,
                           IF s.evicted # {} THEN "evict" ELSE "admit",
                           s.evicted, <<>>, FALSE)

Insert(c, key, value) ==
    IF key \in DOMAIN c.mapping
    THEN LET n == c.mapping[key]
         IN outcome([c EXCEPT !.entries[n].value = value], NilValue, TRUE,
                    "update", {}, <<>>, FALSE)
    ELSE
        LET s == insertSlot(c)
            n == s.ret
        IN IF n = SLRU_EOF
           THEN outcome(s.c, NilValue, FALSE, "panic", {}, <<>>, TRUE)
           ELSE LET c1 == [s.c EXCEPT !.entries[n].key = key,
                                      !.entries[n].value = value,
                                      !.mapping = mapStore(@, key, n)]
                IN outcome(insertHead(c1, "probelist", n), NilValue, TRUE,
                           IF s.evicted # {} THEN "evict" ELSE "admit",
                           s.evicted, <<>>, FALSE)

\* Remove without the "if !ok" return: n is the map's zero value, slot 0
Remove_noMissCheck(c, key) ==
    LET n == IF key \in DOMAIN c.mapping THEN c.mapping[key] ELSE 0 IN
    IF n \notin DOMAIN c.entries
    THEN outcome(c, NilValue, FALSE, "panic", {}, <<>>, TRUE)
    ELSE
        LET l == c.entries[n].list
            c1 == IF l # NilList THEN remove(c, l, n).c ELSE c
            c2 == [c1 EXCEPT !.mapping = mapDelete(@, key),
                             !.entries[n].key = zeroK,
                             !.entries[n].value = zeroV]
            c3 == insertHead(c2, "freelist", n)
            cbs == IF c3.removeCb THEN <<hookCall(c3, "removeCb", key)>> ELSE <<>>
        IN outcome(c3, NilValue, TRUE, "removed", {}, cbs, FALSE)

\* Remove without "delete(c.mapping, key)"
Remove_keepMapping(c, key) ==
    IF key \notin DOMAIN c.mapping
    THEN outcome(c, NilValue, FALSE, "miss", {}, <<>>, FALSE)
    ELSE
        LET n == c.mapping[key]
            l == c.entries[n].list
            c1 == IF l # NilList THEN remove(c, l, n).c ELSE c
            c2 == [c1 EXCEPT !.entries[n].key = zeroK,
                             !.entries[n].value = zeroV]
            c3 == insertHead(c2, "freelist", n)
            cbs == IF c3.removeCb THEN <<hookCall(c3, "removeCb", key)>> ELSE <<>>
        IN outcome(c3, NilValue, TRUE, "removed", {}, cbs, FALSE)

\* Remove without the clearing of the slot's key and value
Remove_noClear(c, key) ==
    IF key \notin DOMAIN c.mapping
    THEN outcome(c, NilValue, FALSE, "miss", {}, <<>>, FALSE)
    ELSE
        LET n == c.mapping[key]
            l == c.entries[n].list
            c1 == IF l # NilList THEN remove(c, l, n).c ELSE c
            c2 == [c1 EXCEPT !.mapping = mapDelete(@, key)]
            c3 == insertHead(c2, "freelist", n)
            cbs == IF c3.removeCb THEN <<hookCall(c3, "removeCb", key)>> ELSE <<>>
        IN outcome(c3, NilValue, TRUE, "removed", {}, cbs, FALSE)

Remove(c, key) ==
    IF key \notin DOMAIN c.mapping
    THEN outcome(c, NilValue, FALSE, "miss", {}, <<>>, FALSE)
    ELSE
        LET n == c.mapping[key]
            l == c.entries[n].list
            c1 == IF l # NilList THEN remove(c, l, n).c ELSE c
            c2 == [c1 EXCEPT !.mapping = mapDelete(@, key),
                             !.entries[n].key = zeroK,
                             !.entries[n].value = zeroV]
            c3 == insertHead(c2, "freelist", n)
            cbs == IF c3.removeCb THEN <<hookCall(c3, "removeCb", key)>> ELSE <<>>
        IN outcome(c3, NilValue, TRUE, "removed", {}, cbs, FALSE)

\* ------------------------------------------------------------------ sanity check

RECURSIVE walkLoop(_, _, _, _, _)
\* walkList's loop "for n >= 0": the failures reported from slot n on and the
\* last slot visited (ln); lastList is the owner tag of the slot before n.
\* The loop of the code does not end on a cyclic chain; fuel cuts it.
walkLoop(c, n, ln, lastList, fuel) ==
    IF n < 0 \/ fuel = 0 THEN [fails |-> {}, ln |-> ln]
    ELSE
        LET e == c.entries[n]
            here ==
                (IF e.prev >= 0 /\ c.entries[e.prev].next # n
                 THEN {"prev link failure"} ELSE {})
                \cup (IF e.next >= 0 /\ c.entries[e.next].prev # n
                      THEN {"next link failure"} ELSE {})
                \cup (IF e.list = NilList THEN {"nil list reference"} ELSE {})
                \cup (IF lastList # NilList /\ lastList # e.list
                      THEN {"multiple list references"} ELSE {})
            rest == walkLoop(c, e.next, n, e.list, fuel - 1)
        IN [fails |-> here \cup rest.fails, ln |-> rest.ln]

\* walkList: the failures reported for list l
walkList(c, l) ==
    LET w == walkLoop(c, c[l].head, c[l].head, NilList, c.cnum + 1)
    IN w.fails \cup (IF c[l].tail # w.ln THEN {"tail reference mismatch"} ELSE {})

\* the failures checkSLRUCacheSanity reports
sanityFailures(c) ==
    walkList(c, "freelist") \cup walkList(c, "probelist") \cup walkList(c, "lrulist")
    \cup (IF c.freelist.count > c.cnum THEN {"freelist size overflow"} ELSE {})
    \cup (IF c.probelist.count > c.pnum THEN {"probelist size overflow"} ELSE {})
    \cup (IF c.lrulist.count > c.snum THEN {"lrulist size overflow"} ELSE {})

\* checkSLRUCacheSanity: TRUE when an inconsistency is found
checkSLRUCacheSanity(c) == sanityFailures(c) # {}

\* ------------------------------------------------------------------ transitions

\* the variables take the fields of cache value c
Store(c) ==
    /\ entries' = c.entries
    /\ mapping' = c.mapping
    /\ snum' = c.snum
    /\ pnum' = c.pnum
    /\ cnum' = c.cnum
    /\ insertCb' = c.insertCb
    /\ removeCb' = c.removeCb
    /\ freelist' = c.freelist
    /\ lrulist' = c.lrulist
    /\ probelist' = c.probelist

\* the record of a call
Called(name, key, value, r) ==
    [name |-> name, key |-> key, value |-> value, ret |-> r.ret, ok |-> r.ok,
     path |-> r.path, evicted |-> r.evicted, cbs |-> r.cbs]

\* a key sequence without key k
Without(keys, k) == SelectSeq(keys, LAMBDA x : x # k)

\* a key sequence without the keys that call outcome r took out of the mapping
StillMapped(keys, r) == SelectSeq(keys, LAMBDA x : x \in DOMAIN r.c.mapping)

\* a key -> value record restricted to the keys call outcome r left mapped
StillStored(f, r) == [k \in (DOMAIN f) \cap (DOMAIN r.c.mapping) |-> f[k]]

Init ==
    \E s \in 0..MaxCap, p \in 0..MaxCap, icb \in BOOLEAN, rcb \in BOOLEAN :
        /\ s + p <= MaxCap
        /\ entries = NewSLRUCache(s, p).entries
        /\ mapping = NewSLRUCache(s, p).mapping
        /\ snum = NewSLRUCache(s, p).snum
        /\ pnum = NewSLRUCache(s, p).pnum
        /\ cnum = NewSLRUCache(s, p).cnum
        /\ freelist = NewSLRUCache(s, p).freelist
        /\ lrulist = NewSLRUCache(s, p).lrulist
        /\ probelist = NewSLRUCache(s, p).probelist
        \* the hooks are nil after construction; package code may set them
        /\ insertCb = icb
        /\ removeCb = rcb
        /\ panicked = FALSE
        /\ op = [name |-> "NewSLRUCache", key |-> zeroK, value |-> zeroV,
                 ret |-> NilValue, ok |-> TRUE, path |-> "new",
                 evicted |-> {}, cbs |-> <<>>]
        /\ hitOrder = <<>>
        /\ admitOrder = <<>>
        /\ inserted = <<>>

\* the orders and values kept of the keys still mapped after call outcome r
Remembered(name, key, value, r) ==
    /\ hitOrder' = IF name = "Lookup" /\ r.ok
                    THEN <<key>> \o Without(StillMapped(hitOrder, r), key)
                    ELSE StillMapped(hitOrder, r)
    /\ admitOrder' = IF name = "Lookup" /\ r.ok
                      THEN Without(StillMapped(admitOrder, r), key)
                      ELSE IF name = "Insert" /\ key \notin DOMAIN mapping /\ ~r.panic
                      THEN <<key>> \o StillMapped(admitOrder, r)
                      ELSE StillMapped(admitOrder, r)
    /\ inserted' = IF name = "Insert" /\ ~r.panic
                    THEN mapStore(StillStored(inserted, r), key, value)
                    ELSE StillStored(inserted, r)

\* a call of a method with outcome r takes effect
Returned(name, key, value, r) ==
    /\ Store(r.c)
    /\ panicked' = r.panic
    /\ op' = Called(name, key, value, r)
    /\ Remembered(name, key, value, r)

DoLookup ==
    /\ ~panicked
    /\ \E key \in Keys :
        Returned("Lookup", key, zeroV, Lookup(cache, key))

DoInsert ==
    /\ ~panicked
    /\ \E key \in Keys, value \in Values :
        Returned("Insert", key, value, Insert(cache, key, value))

DoRemove ==
    /\ ~panicked
    /\ \E key \in Keys :
        Returned("Remove", key, zeroV, Remove(cache, key))

Next == DoLookup \/ DoInsert \/ DoRemove

Spec == Init /\ [][Next]_vars

\* ------------------------------------------------------------------ views

RECURSIVE walkNext(_, _, _)
\* the slots met from slot n by following next, at most fuel of them
walkNext(e, n, fuel) ==
    IF n < 0 \/ n \notin DOMAIN e \/ fuel = 0 THEN <<>>
    ELSE <<n>> \o walkNext(e, e[n].next, fuel - 1)

\* the slots of a list, head to tail
Slots(l) == walkNext(entries, l.head, cnum + 1)

Members(l) == {Slots(l)[i] : i \in 1..Len(Slots(l))}

\* the keys of a list, head to tail
KeysOf(l) == [i \in 1..Len(Slots(l)) |-> entries[Slots(l)[i]].key]

\* the list record an owner tag names
ListOf(name) ==
    CASE name = "freelist" -> freelist
      [] name = "lrulist" -> lrulist
      [] name = "probelist" -> probelist

Resident(k) == k \in DOMAIN mapping

\* ------------------------------------------------------------------ claims

\* C1 (partition invariant): after construction and after every completed
\* Lookup, Insert or Remove, every pool slot is on exactly one of the three
\* lists, its owner tag names that list, no slot is met twice on a list, and
\* the three counts add up to the capacity.
C1_Partition ==
    ~panicked =>
        /\ DOMAIN entries = 0..(cnum - 1)
        /\ cnum = snum + pnum
        /\ \A i \in DOMAIN entries :
              /\ entries[i].list \in ListNames
              /\ \A name \in ListNames :
                    (i \in Members(ListOf(name))) <=> (entries[i].list = name)
        /\ \A name \in ListNames :
              /\ Len(Slots(ListOf(name))) = ListOf(name).count
              /\ Cardinality(Members(ListOf(name))) = ListOf(name).count
        /\ freelist.count + lrulist.count + probelist.count = cnum

\* the three lists are all non-empty after a promotion that evicted
C1_Witness ==
    /\ op.name = "Lookup" /\ op.path = "promote" /\ op.evicted # {}
    /\ freelist.count > 0 /\ lrulist.count > 0 /\ probelist.count > 0

\* C2 (protected capacity bound): lrulist.count <= snum in every state, for
\* every non-negative snum, zero included.
C2_ProtectedBound == lrulist.count <= snum

\* C3 (probationary capacity bound): probelist.count <= pnum in every state.
C3_ProbationaryBound == probelist.count <= pnum

\* an Insert that found probelist full, evicted its tail and left it full
C3_Witness ==
    /\ op.name = "Insert" /\ op.path = "evict"
    /\ pnum > 0 /\ probelist.count = pnum

\* C4 (mapping consistency): every mapped key points to a slot owned by
\* lrulist or probelist that holds this key; every slot owned by lrulist or
\* probelist is the image of exactly one mapped key; no mapped key points to
\* a slot owned by freelist; the number of mapped keys is lrulist.count +
\* probelist.count.
C4_MappingConsistency ==
    /\ \A k \in DOMAIN mapping :
          /\ mapping[k] \in DOMAIN entries
          /\ entries[mapping[k]].list \in {"lrulist", "probelist"}
          /\ entries[mapping[k]].list # "freelist"
          /\ entries[mapping[k]].key = k
    /\ \A i \in DOMAIN entries :
          entries[i].list \in {"lrulist", "probelist"} =>
              Cardinality({k \in DOMAIN mapping : mapping[k] = i}) = 1
    /\ Cardinality(DOMAIN mapping) = lrulist.count + probelist.count

\* keys are mapped in both segments after both kinds of eviction have been
\* possible: a promotion has just evicted lrulist's tail
C4_Witness ==
    /\ op.name = "Lookup" /\ op.path = "promote" /\ op.evicted # {}
    /\ lrulist.count > 0 /\ probelist.count > 0
    /\ Cardinality(DOMAIN mapping) = lrulist.count + probelist.count

\* C5 (scan resistance): no Insert changes the protected list: lrulist's
\* head, tail and count, its slots and its keys in head-to-tail order are the
\* same before and after every Insert.
C5_ScanResistance ==
    [][op'.name = "Insert" =>
          /\ lrulist' = lrulist
          /\ Slots(lrulist)' = Slots(lrulist)
          /\ KeysOf(lrulist)' = KeysOf(lrulist)]_vars

\* an Insert has just evicted probelist's tail while lrulist holds keys
C5_Witness ==
    /\ op.name = "Insert" /\ op.path = "evict"
    /\ lrulist.count > 0 /\ freelist.count = 0

\* C6 (no promotion on write): a completed Insert of a key that was not
\* resident leaves the key's slot owned by probelist, at probelist's head,
\* and not on lrulist.
C6_NoPromotionOnWrite ==
    [][(op'.name = "Insert" /\ ~Resident(op'.key) /\ ~panicked') =>
          /\ op'.key \in DOMAIN mapping'
          /\ entries'[mapping'[op'.key]].list = "probelist"
          /\ probelist'.head = mapping'[op'.key]
          /\ entries'[mapping'[op'.key]].key = op'.key
          /\ mapping'[op'.key] \notin Members(lrulist)']_vars

\* a new key has been admitted by evicting while lrulist had room left
C6_Witness ==
    /\ op.name = "Insert" /\ op.path = "evict"
    /\ lrulist.count < snum
    /\ probelist.head = mapping[op.key]

\* C7 (promotion on hit): a Lookup of a key whose slot is owned by probelist
\* returns its value and leaves the slot owned by lrulist, at lrulist's head;
\* a Lookup of the same key right after it returns the same value and
\* changes no entry, list or mapping and calls no hook.
C7_PromotionOnHit ==
    [][/\ (/\ op'.name = "Lookup" /\ Resident(op'.key) /\ ~panicked'
           /\ entries[mapping[op'.key]].list = "probelist") =>
              /\ op'.ok
              /\ op'.ret = entries[mapping[op'.key]].value
              /\ op'.key \in DOMAIN mapping'
              /\ mapping'[op'.key] = mapping[op'.key]
              /\ entries'[mapping[op'.key]].list = "lrulist"
              /\ lrulist'.head = mapping[op'.key]
       /\ (/\ op.name = "Lookup" /\ op.path = "promote"
           /\ op'.name = "Lookup" /\ op'.key = op.key) =>
              /\ op'.ok
              /\ op'.ret = op.ret
              /\ op'.cbs = <<>>
              /\ UNCHANGED <<entries, mapping, freelist, lrulist, probelist>>]_vars

\* a Lookup has just promoted a key into a full lrulist
C7_Witness ==
    /\ op.name = "Lookup" /\ op.path = "promote" /\ op.evicted # {}
    /\ lrulist.head = mapping[op.key]
    /\ op.ret # zeroV

\* C8 (duplicate insert): Insert of a resident key overwrites the stored
\* value and changes nothing else (no link, owner tag, list or mapping), it
\* evicts nothing and calls no hook; a Lookup of the key right after it
\* returns the value inserted.
C8_DuplicateInsert ==
    [][/\ (op'.name = "Insert" /\ Resident(op'.key)) =>
              /\ entries' = [entries EXCEPT ![mapping[op'.key]].value = op'.value]
              /\ UNCHANGED <<mapping, freelist, lrulist, probelist>>
              /\ op'.evicted = {}
              /\ op'.cbs = <<>>
              /\ ~panicked'
       /\ (/\ op.name = "Insert" /\ op.path = "update"
           /\ op'.name = "Lookup" /\ op'.key = op.key) =>
              /\ op'.ok
              /\ op'.ret = op.value]_vars

\* a resident key that is not the head of lrulist has just been re-inserted
C8_Witness ==
    /\ op.name = "Insert" /\ op.path = "update" /\ op.value # zeroV
    /\ entries[mapping[op.key]].list = "lrulist"
    /\ lrulist.head # mapping[op.key]
    /\ probelist.count > 0

\* C9 (misses): Lookup of a key that is not resident returns nil and Remove
\* of a key that is not resident returns false; neither changes an entry, a
\* list or the mapping, and neither calls a hook.
C9_MissNoEffect ==
    [][/\ (op'.name = "Lookup" /\ ~Resident(op'.key)) =>
              /\ op'.ret = NilValue
              /\ ~op'.ok
              /\ op'.cbs = <<>>
              /\ ~panicked'
              /\ UNCHANGED <<entries, mapping, freelist, lrulist, probelist>>
       /\ (op'.name = "Remove" /\ ~Resident(op'.key)) =>
              /\ ~op'.ok
              /\ op'.cbs = <<>>
              /\ ~panicked'
              /\ UNCHANGED <<entries, mapping, freelist, lrulist, probelist>>]_vars

\* a Remove has missed while other keys are resident in both segments
C9_Witness ==
    /\ op.name = "Remove" /\ ~op.ok /\ ~Resident(op.key)
    /\ lrulist.count > 0 /\ probelist.count > 0

\* C10 (remove of a resident key): Remove of a resident key returns true;
\* afterwards the key is not mapped and stays unmapped until an Insert of
\* it, its former slot is freelist's head with key and value cleared,
\* freelist.count is one more and the owning segment's count one less, and
\* every other resident key keeps its list, its place in the order of that
\* list and its value.
C10_RemoveResident ==
    [][/\ (op'.name = "Remove" /\ Resident(op'.key)) =>
              /\ op'.ok
              /\ ~panicked'
              /\ DOMAIN mapping' = (DOMAIN mapping) \ {op'.key}
              /\ freelist'.head = mapping[op'.key]
              /\ entries'[mapping[op'.key]].list = "freelist"
              /\ entries'[mapping[op'.key]].key = zeroK
              /\ entries'[mapping[op'.key]].value = zeroV
              /\ freelist'.count = freelist.count + 1
              /\ entries[mapping[op'.key]].list \in {"lrulist", "probelist"}
              /\ lrulist'.count = lrulist.count -
                    (IF entries[mapping[op'.key]].list = "lrulist" THEN 1 ELSE 0)
              /\ probelist'.count = probelist.count -
                    (IF entries[mapping[op'.key]].list = "probelist" THEN 1 ELSE 0)
              /\ KeysOf(lrulist)' = Without(KeysOf(lrulist), op'.key)
              /\ KeysOf(probelist)' = Without(KeysOf(probelist), op'.key)
              /\ \A k \in (DOMAIN mapping) \ {op'.key} :
                    entries'[mapping'[k]].value = entries[mapping[k]].value
       /\ \A k \in Keys :
              (~Resident(k) /\ Resident(k)') => (op'.name = "Insert" /\ op'.key = k)]_vars

\* a resident key has just been removed while at least two other keys keep
\* their order in probelist
C10_Witness ==
    /\ op.name = "Remove" /\ op.ok /\ ~Resident(op.key)
    /\ probelist.count >= 2
    /\ freelist.count = 1

\* the calls of one hook among the hook calls of call record o
CallsOf(o, name) == SelectSeq(o.cbs, LAMBDA h : h.cb = name)

\* the keys that a step takes out of the cache
Departing == (DOMAIN mapping) \ (DOMAIN mapping')

\* C11 (removal hook): with a removal hook installed, every operation calls
\* it exactly once for each resident key that leaves the cache in it
\* (evicted by Lookup from lrulist, evicted by Insert from probelist, or
\* deleted by Remove), with that key, and at no other time.
C11_RemovalHook ==
    [][removeCb =>
          /\ Len(CallsOf(op', "removeCb")) = Cardinality(Departing)
          /\ {CallsOf(op', "removeCb")[i].key :
                 i \in 1..Len(CallsOf(op', "removeCb"))} = Departing]_vars

C13_InsertNeverAborts == ~(panicked /\ op.name = "Insert")

\* C14 (Lookup returns the stored value): Lookup of a key returns a value
\* exactly when the key has been inserted and since then neither evicted nor
\* removed, and that value is the one of the latest Insert of the key,
\* whatever has been done with other keys in between.
C14_LookupReturnsStored ==
    [][op'.name = "Lookup" =>
          IF op'.key \in DOMAIN inserted
          THEN op'.ok /\ op'.ret = inserted[op'.key]
          ELSE ~op'.ok /\ op'.ret = NilValue]_vars

\* a Lookup has returned a key's value while every slot of the pool is in
\* use, the pool is smaller than the key space, and another resident key
\* holds a different value
C14_Witness ==
    /\ op.name = "Lookup" /\ op.ok /\ op.ret # zeroV
    /\ cnum < Cardinality(Keys)
    /\ Cardinality(DOMAIN mapping) = cnum
    /\ \E k \in DOMAIN mapping : entries[mapping[k]].value # op.ret

\* C15 (segment sizes across a promotion): a Lookup hit on a key of
\* probelist makes probelist.count one less; if lrulist.count < snum before,
\* lrulist.count is one more and freelist.count the same; if lrulist.count =
\* snum >= 1 before, lrulist.count is the same, freelist.count is one more
\* and lrulist's former tail is owned by freelist. A Lookup hit on a key of
\* lrulist changes no count.
C15_PromotionCounts ==
    [][/\ (/\ op'.name = "Lookup" /\ Resident(op'.key)
           /\ entries[mapping[op'.key]].list = "probelist") =>
              /\ probelist'.count = probelist.count - 1
              /\ lrulist.count < snum =>
                    /\ lrulist'.count = lrulist.count + 1
                    /\ freelist'.count = freelist.count
              /\ (lrulist.count = snum /\ snum >= 1) =>
                    /\ lrulist'.count = lrulist.count
                    /\ freelist'.count = freelist.count + 1
                    /\ entries'[lrulist.tail].list = "freelist"
       /\ (/\ op'.name = "Lookup" /\ Resident(op'.key)
           /\ entries[mapping[op'.key]].list = "lrulist") =>
              /\ probelist'.count = probelist.count
              /\ lrulist'.count = lrulist.count
              /\ freelist'.count = freelist.count]_vars

\* a promotion into a full lrulist of two has displaced its tail into
\* freelist
C15_Witness ==
    /\ op.name = "Lookup" /\ op.path = "promote" /\ op.evicted # {}
    /\ snum >= 2 /\ lrulist.count = snum
    /\ freelist.count >= 1

RECURSIVE walkPrev(_, _, _)
\* the slots met from slot n by following prev, at most fuel of them
walkPrev(e, n, fuel) ==
    IF n < 0 \/ n \notin DOMAIN e \/ fuel = 0 THEN <<>>
    ELSE <<n>> \o walkPrev(e, e[n].prev, fuel - 1)

Reverse(q) == [i \in 1..Len(q) |-> q[Len(q) + 1 - i]]

\* the failures of the sanity walk that concern links and tails
LinkFailures ==
    {"prev link failure", "next link failure", "tail reference mismatch"}

\* C16 (link symmetry): for each of the three lists, following next from
\* head visits count distinct slots, the last of them tail, and then meets
\* the sentinel; following prev from tail visits the same slots in reverse;
\* head.prev and tail.next are the sentinel; an empty list has head = tail =
\* sentinel; and the sanity walk reports no link or tail failure.
C16_LinkSymmetry ==
    \A name \in ListNames :
        LET l == ListOf(name)
            fwd == Slots(l)
        IN /\ Len(fwd) = l.count
           /\ Cardinality(Members(l)) = l.count
           /\ walkPrev(entries, l.tail, cnum + 1) = Reverse(fwd)
           /\ IF l.count = 0
              THEN l.head = SLRU_EOF /\ l.tail = SLRU_EOF
              ELSE /\ fwd[1] = l.head
                   /\ fwd[Len(fwd)] = l.tail
                   /\ entries[l.head].prev = SLRU_EOF
                   /\ entries[l.tail].next = SLRU_EOF
           /\ walkList(cache, name) \cap LinkFailures = {}

\* a Remove has freed slot 1 of a full pool of three, and slots 2 and 0 are
\* linked to each other in probelist
C16_Witness ==
    /\ op.name = "Remove" /\ op.ok
    /\ pnum = 3 /\ probelist.count = 2
    /\ freelist.count = 1 /\ freelist.head = 1
    /\ probelist.head = 2 /\ probelist.tail = 0
    /\ entries[2].next = 0 /\ entries[0].prev = 2

\* C17 (protected eviction is least recently used): lrulist, head to tail,
\* lists its keys by their most recent successful Lookup, the most recent
\* first; a Lookup hit on a key of lrulist moves it to the head and keeps
\* the order of the others; the key a Lookup evicts is the key of lrulist
\* whose last successful Lookup is the oldest.
C17_ProtectedLRU ==
    /\ KeysOf(lrulist) = hitOrder
    /\ [][/\ KeysOf(lrulist)' = hitOrder'
          /\ (/\ op'.name = "Lookup" /\ Resident(op'.key)
              /\ entries[mapping[op'.key]].list = "lrulist") =>
                 KeysOf(lrulist)' = <<op'.key>> \o Without(KeysOf(lrulist), op'.key)
          /\ (op'.name = "Lookup" /\ Departing # {}) =>
                 /\ hitOrder # <<>>
                 /\ Departing = {hitOrder[Len(hitOrder)]}]_vars

\* a promotion has evicted from an lrulist of two keys whose order an
\* earlier hit had set
C17_Witness ==
    /\ op.name = "Lookup" /\ op.path = "promote" /\ op.evicted # {}
    /\ Len(hitOrder) = 2 /\ hitOrder[1] = op.key
    /\ KeysOf(lrulist) = hitOrder

\* C18 (probationary eviction is oldest admitted first): probelist, head to
\* tail, lists its keys by the Insert that admitted them, the newest first;
\* an Insert of a resident key moves no key of probelist; the key an Insert
\* evicts is the key of probelist admitted the earliest.
C18_ProbationaryFIFO ==
    /\ KeysOf(probelist) = admitOrder
    /\ [][/\ KeysOf(probelist)' = admitOrder'
          /\ (op'.name = "Insert" /\ Resident(op'.key)) =>
                 /\ KeysOf(probelist)' = KeysOf(probelist)
                 /\ Slots(probelist)' = Slots(probelist)
          /\ (op'.name = "Insert" /\ Departing # {}) =>
                 /\ admitOrder # <<>>
                 /\ Departing = {admitOrder[Len(admitOrder)]}]_vars

\* an Insert has evicted the oldest of at least two keys of a full probelist
C18_Witness ==
    /\ op.name = "Insert" /\ op.path = "evict"
    /\ probelist.count >= 2
    /\ admitOrder[1] = op.key
    /\ KeysOf(probelist) = admitOrder

\* an Insert of a key that is not resident, returning normally
InsertsNewKey == op'.name = "Insert" /\ ~Resident(op'.key) /\ ~panicked'

\* C19 as stated (source of the slot for a new key): an Insert of a new key
\* takes freelist's tail whenever freelist is not empty, and evicts only if
\* freelist is empty and probelist is at capacity; right after a Remove the
\* Insert of a new key evicts no key.
C19_FreeListFirst ==
    [][InsertsNewKey =>
          /\ freelist.count > 0 =>
                /\ Departing = {}
                /\ mapping'[op'.key] = freelist.tail
          /\ Departing # {} =>
                freelist.count = 0 /\ probelist.count >= pnum
          /\ (op.name = "Remove" /\ op.ok) => Departing = {}]_vars

\* C19 (source of the slot for a new key), amended: when probelist is at
\* capacity and not empty, an Insert of a new key evicts probelist's tail
\* and reuses its slot, leaving freelist as it is, empty or not; when
\* probelist is below capacity and freelist is not empty, it takes
\* freelist's tail and evicts no key. Right after a Remove, the Insert of a
\* new key evicts no key exactly when probelist is below capacity.
C19_ProbationaryFirst ==
    [][(op'.name = "Insert" /\ ~Resident(op'.key)) =>
          /\ (probelist.count >= pnum /\ probelist.count > 0) =>
                /\ ~panicked'
                /\ Departing = {entries[probelist.tail].key}
                /\ mapping'[op'.key] = probelist.tail
                /\ freelist' = freelist
          /\ (probelist.count < pnum /\ freelist.count > 0) =>
                /\ ~panicked'
                /\ Departing = {}
                /\ mapping'[op'.key] = freelist.tail
                /\ freelist'.count = freelist.count - 1
          /\ (op.name = "Remove" /\ op.ok /\ ~panicked') =>
                (Departing = {} <=> probelist.count < pnum)]_vars

\* an Insert has evicted a key from a full probelist while freelist still
\* holds a slot, in a cache with both capacities positive
C19_Witness ==
    /\ op.name = "Insert" /\ op.path = "evict" /\ op.evicted # {}
    /\ snum > 0 /\ pnum > 0
    /\ freelist.count > 0

\* C20 (free slots are cleared): every slot owned by freelist holds the
\* zero key and the zero value.
C20_FreeSlotsCleared ==
    \A n \in Members(freelist) :
        /\ entries[n].list = "freelist"
        /\ entries[n].key = zeroK
        /\ entries[n].value = zeroV

\* freelist holds a slot never used, and at its head the slot that the last
\* call, a Remove or an evicting Lookup of a key other than the zero key,
\* gave back
C20_Witness ==
    /\ \/ op.name = "Remove" /\ op.ok /\ op.key # zeroK
       \/ op.name = "Lookup" /\ op.evicted # {} /\ zeroK \notin op.evicted
    /\ freelist.count >= 2
    /\ freelist.head # freelist.tail
    /\ entries[freelist.head].key = zeroK
    /\ entries[freelist.head].value = zeroV

\* C21 (detach never fails in Lookup or Remove): every mapped key's slot is
\* tagged lrulist or probelist, so when Lookup or Remove finds a key, remove
\* of its slot from the list of its tag returns true, and no Lookup and no
\* Remove panics.
C21_DetachNeverFails ==
    /\ \A k \in DOMAIN mapping :
          entries[mapping[k]].list \in {"lrulist", "probelist"}
    /\ [][op'.name \in {"Lookup", "Remove"} =>
              /\ ~panicked'
              /\ Resident(op'.key) =>
                    /\ entries[mapping[op'.key]].list \in {"lrulist", "probelist"}
                    /\ remove(cache, entries[mapping[op'.key]].list,
                              mapping[op'.key]).ret]_vars

\* a Lookup has moved a key of lrulist that was not at its head, and a
\* Remove could now detach a key of each segment
C21_Witness ==
    /\ op.name = "Lookup" /\ op.path = "move" /\ ~panicked
    /\ lrulist.count >= 2 /\ probelist.count >= 1
    /\ lrulist.head = mapping[op.key]

\* cache value c with the owner tag of each slot of S set to t
Retagged(c, S, t) ==
    [c EXCEPT !.entries = [n \in DOMAIN c.entries |->
                              IF n \in S THEN [c.entries[n] EXCEPT !.list = t]
                              ELSE c.entries[n]]]

\* the owner tags a slot of list l can wrongly carry
WrongTags(l) == (ListNames \cup {NilList}) \ {l}

\* C22 (the sanity walk catches cross-list corruption): whenever slots
\* reached from a list's head along next carry a tag other than that list,
\* be it some of them or all of them, on a list of one slot or of several,
\* checkSLRUCacheSanity returns true. The corrupted pools are the reachable
\* pools with the slots of a non-empty subset of one list retagged.
C22_SanityCatchesCrossList ==
    \A l \in ListNames : \A t \in WrongTags(l) :
        \A S \in (SUBSET Members(ListOf(l))) \ {{}} :
            checkSLRUCacheSanity(Retagged(cache, S, t))

\* C23 (hooks observe a consistent cache): at each call of removeCb or
\* insertCb no slot is detached from all three lists and the three counts
\* add up to cnum.
C23_HooksSeeConsistentCache ==
    \A i \in 1..Len(op.cbs) :
        /\ op.cbs[i].unowned = 0
        /\ op.cbs[i].total = cnum

====
